---- MODULE Spec2Model ----
(***************************************************************************)
(* MovieHubX/peach, server side: the provider client lifecycle manager     *)
(* (utils/providerManager.ts and its variant with the buildProviders /     *)
(* makeProviders capability probe) and the GET /get resolution cascade of  *)
(* routes/source.ts.                                                        *)
(*                                                                         *)
(* JavaScript runs a handler atomically between two awaits, so every       *)
(* action below is one such synchronous segment: it starts when an awaited *)
(* promise settles (or a call is made) and ends at the next await, at a    *)
(* response, or at the end of the handler.                                 *)
(***************************************************************************)
EXTENDS Integers, Sequences, FiniteSets, TLC

(***************************************************************************)
(* Bounds of the model.                                                    *)
(***************************************************************************)
NumCallers == 2      \* async callers of getProviderInstance in flight at once
MaxResets == 1       \* resetProviderInstance() calls in one run
MaxAttempts == 3     \* cap on the log of library constructions

Callers == 1..NumCallers
ProxyUrls == {"http://proxy-a", "http://proxy-b"}

(***************************************************************************)
(* Values.  null is the record NullInstance; a built client is a record    *)
(* with a positive id (its identity) and the proxy URL it was bound to.    *)
(***************************************************************************)
NullInstance == [id |-> 0, proxyUrl |-> ""]
NoPromise == [id |-> 0, value |-> NullInstance]

VARIABLES
    providersInstance,     \* providerManager.ts: let providersInstance
    loadPromise,           \* providerManager.ts: let loadPromise
    attempts,              \* history: one entry per library construction attempted
    resets,                \* history: number of resetProviderInstance() calls
    callers,               \* the async callers awaiting getProviderInstance
    availableSeen,         \* last value returned by isProviderSourceAvailable()
    h,                     \* the activation of the GET /get handler (its locals)
    responses,             \* what the handler has sent on res, in order
    called,                \* history: external calls made for the request
    aggregate,             \* history: how the aggregate phase of the request ended
    runAllPending,         \* providers.runAll(...) has not settled yet
    timerArmed,            \* the 30 s setTimeout has not fired yet
    px                     \* the activation of the POST /proxy handler

mgrVars == <<providersInstance, loadPromise, attempts, resets>>
routeVars == <<h, responses, called, aggregate, runAllPending, timerArmed, px>>
vars == <<providersInstance, loadPromise, attempts, resets,
          callers, availableSeen,
          h, responses, called, aggregate, runAllPending, timerArmed, px>>

Truthy(inst) == inst.id # 0

(***************************************************************************)
(* What the library does when the client is constructed: whether it        *)
(* exports buildProviders (the capability probe of the variant with        *)
(* makeProviders as fallback) and whether the construction (the fetchers,  *)
(* buildProviders()...build() or makeProviders(...)) returns or throws.    *)
(***************************************************************************)
InitOutcomes == [hasBuilder : BOOLEAN, construct : {"ok", "throw"}]

(***************************************************************************)
(* The body of the async IIFE assigned to loadPromise.  It contains no     *)
(* await, so it runs to completion inside the call that starts it and the  *)
(* promise it returns is already settled when it is stored.  The result is *)
(* the new providersInstance and the value the promise settles to.         *)
(***************************************************************************)
InitBody(proxyUrl, outcome) ==
    LET built == [id |-> Len(attempts) + 1, proxyUrl |-> proxyUrl]
    IN  IF outcome.hasBuilder
        THEN IF outcome.construct = "ok"
             THEN [inst |-> built, value |-> built]
             ELSE [inst |-> providersInstance, value |-> NullInstance]
        ELSE IF outcome.construct = "ok"
             THEN [inst |-> built, value |-> built]
             ELSE [inst |-> providersInstance, value |-> NullInstance]

\* getProviderInstance rebuilding the client when it is asked for another
\* proxy URL than the one the cached client was built with.
GetProviderInstance_RebindOnProxyChange(proxyUrl, outcome) ==
    IF Truthy(providersInstance) /\ providersInstance.proxyUrl = proxyUrl
    THEN [inst |-> providersInstance, promise |-> loadPromise,
          log |-> attempts, value |-> providersInstance]
    ELSE IF ~Truthy(providersInstance) /\ loadPromise # NoPromise
    THEN [inst |-> providersInstance, promise |-> loadPromise,
          log |-> attempts, value |-> loadPromise.value]
    ELSE LET b == InitBody(proxyUrl, outcome)
             p == [id |-> Len(attempts) + 1, value |-> b.value]
         IN  [inst |-> b.inst, promise |-> p,
              log |-> Append(attempts, [epoch |-> resets, value |-> b.value]),
              value |-> b.value]

\* getProviderInstance without the `if (loadPromise) return loadPromise`
\* of lines 20-22: every call that finds no client constructs one.
GetProviderInstance_NoPromiseCheck(proxyUrl, outcome) ==
    IF Truthy(providersInstance)
    THEN [inst |-> providersInstance, promise |-> loadPromise,
          log |-> attempts, value |-> providersInstance]
    ELSE LET b == InitBody(proxyUrl, outcome)
             p == [id |-> Len(attempts) + 1, value |-> b.value]
         IN  [inst |-> b.inst, promise |-> p,
              log |-> Append(attempts, [epoch |-> resets, value |-> b.value]),
              value |-> b.value]

(***************************************************************************)
(* getProviderInstance(proxyUrl), the synchronous part of the call: the    *)
(* new manager state and the value the returned promise resolves to.       *)
(***************************************************************************)
GetProviderInstance(proxyUrl, outcome) ==
    IF Truthy(providersInstance)
    THEN [inst |-> providersInstance, promise |-> loadPromise,
          log |-> attempts, value |-> providersInstance]
    ELSE IF loadPromise # NoPromise
    THEN [inst |-> providersInstance, promise |-> loadPromise,
          log |-> attempts, value |-> loadPromise.value]
    ELSE LET b == InitBody(proxyUrl, outcome)
             p == [id |-> Len(attempts) + 1, value |-> b.value]
         IN  [inst |-> b.inst, promise |-> p,
              log |-> Append(attempts, [epoch |-> resets, value |-> b.value]),
              value |-> b.value]

ApplyManager(r) ==
    /\ providersInstance' = r.inst
    /\ loadPromise' = r.promise
    /\ attempts' = r.log
    /\ UNCHANGED resets

\* isProviderSourceAvailable()
IsProviderSourceAvailable == providersInstance # NullInstance

\* resetProviderInstance() without `loadPromise = null` (line 84).
ResetProviderInstance_KeepPromise ==
    /\ resets < MaxResets
    /\ providersInstance' = NullInstance
    /\ loadPromise' = loadPromise
    /\ resets' = resets + 1
    /\ UNCHANGED <<attempts, callers, availableSeen, routeVars>>

\* resetProviderInstance()
ResetProviderInstance ==
    /\ resets < MaxResets
    /\ providersInstance' = NullInstance
    /\ loadPromise' = NoPromise
    /\ resets' = resets + 1
    /\ UNCHANGED <<attempts, callers, availableSeen, routeVars>>

CheckAvailable ==
    /\ availableSeen' = IsProviderSourceAvailable
    /\ UNCHANGED <<mgrVars, callers, routeVars>>

(***************************************************************************)
(* A caller: `const providers = await getProviderInstance(config.proxyUrl)`*)
(* (source.ts line 169 and line 501).  The call runs the synchronous part; *)
(* the caller resumes later with the value the promise had.                *)
(***************************************************************************)
IdleCaller == [pc |-> "idle", proxyUrl |-> "", epoch |-> 0, value |-> NullInstance]

CallerCalls(c, proxyUrl, outcome) ==
    /\ callers[c].pc = "idle"
    /\ Len(attempts) < MaxAttempts
    /\ LET r == GetProviderInstance(proxyUrl, outcome)
       IN  /\ ApplyManager(r)
           /\ callers' = [callers EXCEPT ![c] =
                  [pc |-> "awaiting", proxyUrl |-> proxyUrl, epoch |-> resets,
                   value |-> r.value]]
    /\ UNCHANGED <<availableSeen, routeVars>>

CallerResumes(c) ==
    /\ callers[c].pc = "awaiting"
    /\ callers' = [callers EXCEPT ![c].pc = "done"]
    /\ UNCHANGED <<mgrVars, availableSeen, routeVars>>

CallerReturns(c) ==
    /\ callers[c].pc = "done"
    /\ callers' = [callers EXCEPT ![c] = IdleCaller]
    /\ UNCHANGED <<mgrVars, availableSeen, routeVars>>

(***************************************************************************)
(* GET /get: the data the handler sees.                                    *)
(*                                                                         *)
(* A query parameter is a string; "" stands for an absent (undefined) or   *)
(* empty parameter, both of which `!x` treats alike.                       *)
(***************************************************************************)
MaxCaptions == 2     \* longest raw caption list a scraper returns
MaxEmbeds == 2       \* longest embed list a source scraper returns

Queries == [tmdbId : {"", "603"}, type : {"", "movie", "tv", "series"},
            season : {"", "1"}, episode : {"", "4"}]

\* What the TMDB request yields: a failure, or the data of the movie or
\* tv endpoint asked.  A date is kept as its year, month and day.
NoDate == [y |-> 0, m |-> 0, d |-> 0]
EmptyTmdb == [title |-> "", name |-> "", release_date |-> NoDate,
              first_air_date |-> NoDate]
TmdbReplies(type) ==
    { [ok |-> FALSE, data |-> EmptyTmdb],
      [ok |-> TRUE,
       data |-> IF type = "movie"
                THEN [title |-> "Heat", name |-> "",
                      release_date |-> [y |-> 1995, m |-> 12, d |-> 15],
                      first_air_date |-> NoDate]
                ELSE [title |-> "", name |-> "Dark", release_date |-> NoDate,
                      first_air_date |-> [y |-> 2017, m |-> 12, d |-> 1]]] }

\* new Date("YYYY-MM-DD").getFullYear(): the string is parsed as midnight
\* UTC and the year is read in local time, so west of Greenwich the first
\* of January belongs to the year before.
GetFullYear(date, westOfUtc) ==
    IF westOfUtc /\ date.m = 1 /\ date.d = 1 THEN date.y - 1 ELSE date.y

\* Raw caption entries as a scraper may return them; a null entry is one.
NullCaption == [isNull |-> TRUE, label |-> "", language |-> "", url |-> "", src |-> ""]
CaptionEntries ==
    { NullCaption,
      [isNull |-> FALSE, label |-> "English", language |-> "en",
       url |-> "http://sub/en.vtt", src |-> ""],
      [isNull |-> FALSE, label |-> "", language |-> "",
       url |-> "", src |-> "http://src/de.vtt"] }
CaptionLists == UNION { [1..n -> CaptionEntries] : n \in 0..MaxCaptions }

\* stream.headers: absent, or an object whose values may be strings or not.
StringValue == [isString |-> TRUE, v |-> "https://site/"]
NumberValue == [isString |-> FALSE, v |-> "7"]
NoHeaders == [present |-> FALSE, map |-> <<>>]
RawHeaders ==
    { NoHeaders,
      [present |-> TRUE,
       map |-> [k \in {"Referer", "X-Retry"} |->
                   IF k = "Referer" THEN StringValue ELSE NumberValue]] }

\* stream.qualities of a file stream: absent, or an object from quality
\* label to file data, which is null, or an object with or without a url.
Labels == <<"360", "720">>
LabelSet == {Labels[i] : i \in 1..Len(Labels)}
FileData == { [isNull |-> TRUE, url |-> ""], [isNull |-> FALSE, url |-> ""],
              [isNull |-> FALSE, url |-> "http://cdn/file.mp4"] }
NoQualities == [present |-> FALSE, map |-> <<>>]
RawQualities == {NoQualities} \cup
    { [present |-> TRUE, map |-> f] :
        f \in UNION { [S -> FileData] : S \in SUBSET LabelSet } }

\* A raw stream: tagged hls (playlist), file (qualities) or anything else.
\* An hls stream may carry other fields too, here a qualities object.
StreamShapes ==
    { [type |-> "hls", playlist |-> p, qualities |-> NoQualities] :
        p \in {"", "http://cdn/master.m3u8"} }
    \cup { [type |-> "hls", playlist |-> "http://cdn/master.m3u8",
            qualities |-> [present |-> TRUE,
                           map |-> [l \in {"720"} |->
                                      [isNull |-> FALSE, url |-> "http://cdn/file.mp4"]]]] }
    \cup { [type |-> "file", playlist |-> "", qualities |-> q] : q \in RawQualities }
    \cup { [type |-> "dash", playlist |-> "", qualities |-> NoQualities] }
RawStreams ==
    { [type |-> s.type, playlist |-> s.playlist, qualities |-> s.qualities,
       captions |-> c, headers |-> hd] :
        s \in StreamShapes, c \in CaptionLists, hd \in RawHeaders }
NoStream == [type |-> "", playlist |-> "", qualities |-> NoQualities,
             captions |-> <<>>, headers |-> NoHeaders]
HasStream(result) == result.stream # NoStream

\* What providers.runAll resolves to: null/undefined, or an object.
NullResult == [isNull |-> TRUE, stream |-> NoStream, sourceId |-> "", embeds |-> <<>>]
RunAllResults == {NullResult} \cup
    { [isNull |-> FALSE, stream |-> s, sourceId |-> id, embeds |-> <<>>] :
        s \in RawStreams \cup {NoStream}, id \in {"", "flixhq"} }

\* What providers.runSourceScraper resolves to.
EmbedIds == {"upcloud", "vidcloud"}
Embeds == { [embedId |-> e, url |-> "http://embed/" \o e] : e \in EmbedIds }
EmbedLists ==
    { e \in UNION { [1..n -> Embeds] : n \in 0..MaxEmbeds } :
        \A i, j \in 1..Len(e) : e[i] = e[j] => i = j }
SourceResults == {NullResult} \cup
    { [isNull |-> FALSE, stream |-> s, sourceId |-> "", embeds |-> e] :
        s \in RawStreams \cup {NoStream}, e \in EmbedLists }

\* What providers.runEmbedScraper resolves to.
EmbedResults == {NullResult} \cup
    { [isNull |-> FALSE, stream |-> s, sourceId |-> "", embeds |-> <<>>] :
        s \in RawStreams \cup {NoStream} }

\* A settled promise: it is fulfilled with a value or rejected.
Threw == [threw |-> TRUE, value |-> NullResult]
Settled(results) == {Threw} \cup { [threw |-> FALSE, value |-> r] : r \in results }

(***************************************************************************)
(* GET /get: the handler's locals and what it sends.                       *)
(***************************************************************************)
\* (req as any).config, the configuration the server injects in requests.
Config == [proxyUrl |-> "http://proxy-a"]

Sources == <<"8stream", "ee3", "streambox", "soapertv", "whvxMirrors">>

NoMedia == [type |-> "", tmdbId |-> "", title |-> "", releaseYear |-> 0,
            hasEpisode |-> FALSE, season |-> 0, episode |-> 0]
NoEmbed == [embedId |-> "", url |-> ""]
NoQuery == [tmdbId |-> "", type |-> "", season |-> "", episode |-> ""]
IdleHandler ==
    [pc |-> "idle", query |-> NoQuery, tmdbData |-> EmptyTmdb,
     pending |-> NullInstance, providers |-> NullInstance, media |-> NoMedia,
     isUsingProviderSource |-> FALSE, srcIdx |-> 0, embed |-> NoEmbed]

NoData == [title |-> "", type |-> "", qualities |-> <<>>, captions |-> <<>>,
           sourceProvider |-> "", headers |-> <<>>]
Fallbacks3 == <<"videasy.net", "vidlink.pro", "vidsrc.pro">>
Fallbacks4 == <<"videasy.net", "vidlink.pro", "vidsrc.pro", "superembed">>

\* The validation without the season/episode check of lines 137-142.
Validate_NoEpisodeCheck(q) ==
    IF q.tmdbId = "" \/ q.type = ""
    THEN "Missing required parameters: tmdbId and type"
    ELSE IF q.type # "movie" /\ q.type # "tv"
    THEN "Type must be \"movie\" or \"tv\""
    ELSE ""

\* The validation asking for season and episode whatever the type.
Validate_EpisodeForAll(q) ==
    IF q.tmdbId = "" \/ q.type = ""
    THEN "Missing required parameters: tmdbId and type"
    ELSE IF q.type # "movie" /\ q.type # "tv"
    THEN "Type must be \"movie\" or \"tv\""
    ELSE IF q.season = "" \/ q.episode = ""
    THEN "Season and episode are required for TV shows"
    ELSE ""

\* The validation of lines 122-142: the error message, or "" when the
\* query passes.
Validate(q) ==
    IF q.tmdbId = "" \/ q.type = ""
    THEN "Missing required parameters: tmdbId and type"
    ELSE IF q.type # "movie" /\ q.type # "tv"
    THEN "Type must be \"movie\" or \"tv\""
    ELSE IF q.type = "tv" /\ (q.season = "" \/ q.episode = "")
    THEN "Season and episode are required for TV shows"
    ELSE ""

ValidationFailure(error) ==
    [status |-> 400, success |-> FALSE, error |-> error, data |-> NoData,
     fallbacks |-> <<>>]

\* Number(x) of a query string.
NumberOf(str) == CASE str = "1" -> 1 [] str = "4" -> 4 [] OTHER -> 0

\* The media object of lines 176-193.
BuildMedia(q, tmdbData, westOfUtc) ==
    [type |-> IF q.type = "movie" THEN "movie" ELSE "show",
     tmdbId |-> q.tmdbId,
     title |-> IF tmdbData.title # "" THEN tmdbData.title ELSE tmdbData.name,
     releaseYear |->
        IF tmdbData.release_date # NoDate
        THEN GetFullYear(tmdbData.release_date, westOfUtc)
        ELSE IF tmdbData.first_air_date # NoDate
        THEN GetFullYear(tmdbData.first_air_date, westOfUtc)
        ELSE 0,
     hasEpisode |-> q.type = "tv",
     season |-> IF q.type = "tv" THEN NumberOf(q.season) ELSE 0,
     episode |-> IF q.type = "tv" THEN NumberOf(q.episode) ELSE 0]

\* The caption loop the handler repeats for every stream it normalizes
\* (lines 226-235, 306-315, 378-387).  Reading `.language` of a null entry
\* raises a TypeError, which leaves the loop.
InlineCaption(caption, i) ==
    [language |-> IF caption.language # "" THEN caption.language
                  ELSE "Subtitle " \o ToString(i),
     url |-> caption.url,
     default |-> i = 1]

\* The caption loop leaving out the entries that have no url.
InlineCaptions_SkipEmptyUrl(stream) ==
    LET kept == SelectSeq(stream.captions, LAMBDA c : c.url # "")
    IN  [threw |-> \E i \in 1..Len(stream.captions) : stream.captions[i].isNull,
         captions |-> [i \in 1..Len(kept) |-> InlineCaption(kept[i], i)]]

InlineCaptions(stream) ==
    [threw |-> \E i \in 1..Len(stream.captions) : stream.captions[i].isNull,
     captions |-> [i \in 1..Len(stream.captions) |->
                      InlineCaption(stream.captions[i], i)]]

\* Object.entries(stream.qualities): the labels used here are integer-like
\* keys, which are enumerated in ascending order.
ObjectEntries(map) == SelectSeq(Labels, LAMBDA l : l \in DOMAIN map)

\* The file branch stopping after the first entry that has a url.
FileQualities_FirstOnly(stream) ==
    IF stream.qualities.present
    THEN LET keys == ObjectEntries(stream.qualities.map)
             kept == SelectSeq(keys, LAMBDA l :
                         /\ ~stream.qualities.map[l].isNull
                         /\ stream.qualities.map[l].url # "")
         IN  [i \in 1..(IF Len(kept) > 0 THEN 1 ELSE 0) |->
                 [quality |-> IF kept[i] # "" THEN kept[i] ELSE "auto",
                  url |-> stream.qualities.map[kept[i]].url]]
    ELSE <<>>

\* The qualities array and stream type of lines 238-262 (and 317-340,
\* 389-412).
FileQualities(stream) ==
    IF stream.qualities.present
    THEN LET keys == ObjectEntries(stream.qualities.map)
             kept == SelectSeq(keys, LAMBDA l :
                         /\ ~stream.qualities.map[l].isNull
                         /\ stream.qualities.map[l].url # "")
         IN  [i \in 1..Len(kept) |->
                 [quality |-> IF kept[i] # "" THEN kept[i] ELSE "auto",
                  url |-> stream.qualities.map[kept[i]].url]]
    ELSE <<>>

\* The hls branch reading the qualities object when the stream has one.
InlineQualities_PreferQualities(stream) ==
    IF stream.type = "hls"
    THEN [type |-> "hls",
          qualities |-> IF stream.qualities.present
                        THEN FileQualities(stream)
                        ELSE IF stream.playlist # ""
                        THEN << [quality |-> "auto", url |-> stream.playlist] >>
                        ELSE <<>>]
    ELSE IF stream.type = "file"
    THEN [type |-> "mp4", qualities |-> FileQualities(stream)]
    ELSE [type |-> "mp4", qualities |-> <<>>]

InlineQualities(stream) ==
    IF stream.type = "hls"
    THEN [type |-> "hls",
          qualities |-> IF stream.playlist # ""
                        THEN << [quality |-> "auto", url |-> stream.playlist] >>
                        ELSE <<>>]
    ELSE IF stream.type = "file"
    THEN [type |-> "mp4", qualities |-> FileQualities(stream)]
    ELSE [type |-> "mp4", qualities |-> <<>>]

\* getStreamHeaders(stream), lines 71-83.
GetStreamHeaders(stream) ==
    IF stream.headers.present
    THEN LET keep == {k \in DOMAIN stream.headers.map :
                         stream.headers.map[k].isString}
         IN  [k \in keep |-> stream.headers.map[k].v]
    ELSE <<>>

\* One stream normalized the way the handler does it in place: captions
\* first (which may throw), then the qualities, then the headers.
NormalizeInline(stream) ==
    LET c == InlineCaptions(stream)
        q == InlineQualities(stream)
    IN  [threw |-> c.threw, type |-> q.type, qualities |-> q.qualities,
         captions |-> c.captions, headers |-> GetStreamHeaders(stream)]

SuccessResponse(media, n, sourceProvider) ==
    [status |-> 200, success |-> TRUE, error |-> "",
     data |-> [title |-> media.tmdbId, type |-> n.type,
               qualities |-> n.qualities, captions |-> n.captions,
               sourceProvider |-> sourceProvider, headers |-> n.headers],
     fallbacks |-> Fallbacks3]

\* The fallback response with the list the success responses carry.
FallbackResponse_ShortList ==
    [status |-> 200, success |-> FALSE,
     error |-> "Real stream scraping unavailable, using embedded players",
     data |-> NoData, fallbacks |-> Fallbacks3]

FallbackResponse ==
    [status |-> 200, success |-> FALSE,
     error |-> "Real stream scraping unavailable, using embedded players",
     data |-> NoData, fallbacks |-> Fallbacks4]

(***************************************************************************)
(* The synchronous segments of the handler.  Each takes the activation hh  *)
(* and what the awaited promise settled to, and gives the activation at    *)
(* the next await (or at the end), the responses sent on the way and the   *)
(* external calls started.                                                 *)
(***************************************************************************)
Ended(hh) == [hh EXCEPT !.pc = "done"]

\* Lines 449-457 and the end of the handler: reached when the inner try
\* block is left without a return.
AfterCascade(hh) ==
    IF ~hh.isUsingProviderSource
    THEN [h |-> Ended(hh), send |-> <<FallbackResponse>>, call |-> {}]
    ELSE [h |-> Ended(hh), send |-> <<>>, call |-> {}]

\* The head of the for loop of line 291 for the i-th source.
TrySource(hh, i) ==
    IF i <= Len(Sources)
    THEN [h |-> [hh EXCEPT !.pc = "awaitSource", !.srcIdx = i, !.embed = NoEmbed],
          send |-> <<>>, call |-> {"runSourceScraper"}]
    ELSE AfterCascade(hh)

\* The aggregate phase without the try/catch of lines 201-220 around the
\* race: a rejection leaves the cascade for the catch of line 445.
AfterAggregate_NoCatch(hh, settled) ==
    LET result == settled.value
    IN  IF settled.threw
        THEN AfterCascade(hh)
        ELSE IF ~result.isNull /\ HasStream(result)
        THEN LET hh1 == [hh EXCEPT !.isUsingProviderSource = TRUE]
                 n == NormalizeInline(result.stream)
             IN  IF n.threw
                 THEN AfterCascade(hh1)
                 ELSE IF Len(n.qualities) > 0
                 THEN [h |-> Ended(hh1),
                       send |-> << SuccessResponse(hh.media, n,
                                      IF result.sourceId # "" THEN result.sourceId
                                      ELSE "unknown") >>,
                       call |-> {}]
                 ELSE AfterCascade(hh1)
        ELSE TrySource(hh, 1)

\* Lines 215-290: the race has settled; result is null after a rejection.
AfterAggregate(hh, settled) ==
    LET result == IF settled.threw THEN NullResult ELSE settled.value
    IN  IF ~result.isNull /\ HasStream(result)
        THEN LET hh1 == [hh EXCEPT !.isUsingProviderSource = TRUE]
                 n == NormalizeInline(result.stream)
             IN  IF n.threw
                 THEN AfterCascade(hh1)
                 ELSE IF Len(n.qualities) > 0
                 THEN [h |-> Ended(hh1),
                       send |-> << SuccessResponse(hh.media, n,
                                      IF result.sourceId # "" THEN result.sourceId
                                      ELSE "unknown") >>,
                       call |-> {}]
                 ELSE AfterCascade(hh1)
        ELSE TrySource(hh, 1)

\* The source step whose catch (line 439) skips the source after the one
\* that threw.
AfterSource_SkipOnThrow(hh, settled) ==
    LET sourceId == Sources[hh.srcIdx]
        sourceResult == settled.value
        n == NormalizeInline(sourceResult.stream)
        direct == ~sourceResult.isNull /\ HasStream(sourceResult)
    IN  IF settled.threw
        THEN TrySource(hh, hh.srcIdx + 2)
        ELSE IF direct /\ n.threw
        THEN TrySource(hh, hh.srcIdx + 1)
        ELSE IF direct /\ Len(n.qualities) > 0
        THEN [h |-> Ended(hh), send |-> << SuccessResponse(hh.media, n, sourceId) >>,
              call |-> {}]
        ELSE IF ~sourceResult.isNull /\ Len(sourceResult.embeds) > 0
        THEN [h |-> [hh EXCEPT !.pc = "awaitEmbed", !.embed = sourceResult.embeds[1]],
              send |-> <<>>, call |-> {"runEmbedScraper"}]
        ELSE TrySource(hh, hh.srcIdx + 1)

\* The source step without the `qualitiesArray.length > 0` test of line 342.
AfterSource_NoLengthCheck(hh, settled) ==
    LET sourceId == Sources[hh.srcIdx]
        sourceResult == settled.value
        n == NormalizeInline(sourceResult.stream)
        direct == ~sourceResult.isNull /\ HasStream(sourceResult)
    IN  IF settled.threw
        THEN TrySource(hh, hh.srcIdx + 1)
        ELSE IF direct /\ n.threw
        THEN TrySource(hh, hh.srcIdx + 1)
        ELSE IF direct
        THEN [h |-> Ended(hh), send |-> << SuccessResponse(hh.media, n, sourceId) >>,
              call |-> {}]
        ELSE IF ~sourceResult.isNull /\ Len(sourceResult.embeds) > 0
        THEN [h |-> [hh EXCEPT !.pc = "awaitEmbed", !.embed = sourceResult.embeds[1]],
              send |-> <<>>, call |-> {"runEmbedScraper"}]
        ELSE TrySource(hh, hh.srcIdx + 1)

\* Lines 300-442: runSourceScraper has settled for source hh.srcIdx.
AfterSource(hh, settled) ==
    LET sourceId == Sources[hh.srcIdx]
        sourceResult == settled.value
        n == NormalizeInline(sourceResult.stream)
        direct == ~sourceResult.isNull /\ HasStream(sourceResult)
    IN  IF settled.threw
        THEN TrySource(hh, hh.srcIdx + 1)
        ELSE IF direct /\ n.threw
        THEN TrySource(hh, hh.srcIdx + 1)
        ELSE IF direct /\ Len(n.qualities) > 0
        THEN [h |-> Ended(hh), send |-> << SuccessResponse(hh.media, n, sourceId) >>,
              call |-> {}]
        ELSE IF ~sourceResult.isNull /\ Len(sourceResult.embeds) > 0
        THEN [h |-> [hh EXCEPT !.pc = "awaitEmbed", !.embed = sourceResult.embeds[1]],
              send |-> <<>>, call |-> {"runEmbedScraper"}]
        ELSE TrySource(hh, hh.srcIdx + 1)

\* Lines 375-437: runEmbedScraper has settled for the first embed.
AfterEmbed(hh, settled) ==
    LET sourceId == Sources[hh.srcIdx]
        embedResult == settled.value
        n == NormalizeInline(embedResult.stream)
        found == ~embedResult.isNull /\ HasStream(embedResult)
    IN  IF settled.threw
        THEN TrySource(hh, hh.srcIdx + 1)
        ELSE IF found /\ n.threw
        THEN TrySource(hh, hh.srcIdx + 1)
        ELSE IF found /\ Len(n.qualities) > 0
        THEN [h |-> Ended(hh),
              send |-> << SuccessResponse(hh.media, n,
                             sourceId \o " → " \o hh.embed.embedId) >>,
              call |-> {}]
        ELSE TrySource(hh, hh.srcIdx + 1)

\* The step with the error of line 172 escaping to the catch of line 459.
AfterProviders_Rethrow(hh, westOfUtc) ==
    IF ~Truthy(hh.pending)
    THEN [h |-> Ended(hh),
          send |-> << [status |-> 500, success |-> FALSE,
                       error |-> "Provider-source not available",
                       data |-> NoData, fallbacks |-> Fallbacks3] >>,
          call |-> {}]
    ELSE [h |-> [hh EXCEPT !.pc = "awaitRace", !.providers = hh.pending,
                           !.media = BuildMedia(hh.query, hh.tmdbData, westOfUtc),
                           !.query = NoQuery, !.tmdbData = EmptyTmdb],
          send |-> <<>>, call |-> {"runAll"}]

\* The step without the `if (!providers) throw` of lines 171-173.
AfterProviders_NoNullCheck(hh, westOfUtc) ==
    [h |-> [hh EXCEPT !.pc = "awaitRace", !.providers = hh.pending,
                      !.media = BuildMedia(hh.query, hh.tmdbData, westOfUtc),
                      !.query = NoQuery, !.tmdbData = EmptyTmdb],
     send |-> <<>>, call |-> {"runAll"}]

\* Lines 168-213: getProviderInstance has settled.  Past line 195 the query
\* and the TMDB data are read by log lines only (all else goes through
\* media), so the activation stops carrying them.
AfterProviders(hh, westOfUtc) ==
    IF ~Truthy(hh.pending)
    THEN AfterCascade(hh)
    ELSE [h |-> [hh EXCEPT !.pc = "awaitRace", !.providers = hh.pending,
                           !.media = BuildMedia(hh.query, hh.tmdbData, westOfUtc),
                           !.query = NoQuery, !.tmdbData = EmptyTmdb],
          send |-> <<>>, call |-> {"runAll"}]

\* Lines 117-153: the request arrives.
OnRequest(q) ==
    IF Validate(q) # ""
    THEN [h |-> [IdleHandler EXCEPT !.pc = "done", !.query = q],
          send |-> << ValidationFailure(Validate(q)) >>, call |-> {}]
    ELSE [h |-> [IdleHandler EXCEPT !.pc = "awaitTmdb", !.query = q],
          send |-> <<>>, call |-> {"tmdb"}]

\* How the aggregate phase ended, for the record: "failed" when runAll
\* threw or gave no stream ("timedOut" when the timer fired instead),
\* "empty" when it gave a stream from which no quality entry is extracted,
\* "usable" when it gave a stream with at least one.
AggregateClass(settled) ==
    IF settled.threw \/ settled.value.isNull \/ ~HasStream(settled.value)
    THEN "failed"
    ELSE IF Len(InlineQualities(settled.value.stream).qualities) = 0
    THEN "empty"
    ELSE "usable"

(***************************************************************************)
(* GET /get: the actions, one per synchronous segment.                     *)
(***************************************************************************)
Apply(r) ==
    /\ h' = r.h
    /\ responses' = responses \o r.send
    /\ called' = called \cup r.call

\* A request arrives and runs up to its first await (or its 400 response).
Request(q) ==
    /\ h.pc = "idle"
    /\ Apply(OnRequest(q))
    /\ UNCHANGED <<aggregate, runAllPending, timerArmed, mgrVars, callers, availableSeen, px>>

\* The handler has run to its end; its activation, its res object and what
\* is left of its race are dropped, and the next request can be served.
HandlerReturns ==
    /\ h.pc = "done"
    /\ h' = IdleHandler
    /\ responses' = <<>>
    /\ called' = {}
    /\ aggregate' = "none"
    /\ runAllPending' = FALSE
    /\ timerArmed' = FALSE
    /\ UNCHANGED <<mgrVars, callers, availableSeen, px>>

\* The TMDB request settles (lines 153-166); the handler goes on to call
\* getProviderInstance(config.proxyUrl) and awaits it (line 169).
TmdbSettles(reply, outcome) ==
    /\ h.pc = "awaitTmdb"
    /\ Len(attempts) < MaxAttempts
    /\ LET r == GetProviderInstance(Config.proxyUrl, outcome)
       IN  /\ ApplyManager(r)
           /\ h' = [h EXCEPT !.pc = "awaitProviders", !.tmdbData = reply.data,
                             !.pending = r.value]
    /\ called' = called \cup {"getProviderInstance"}
    /\ UNCHANGED <<responses, aggregate, runAllPending, timerArmed, callers, availableSeen, px>>

\* The await of line 169 resumes; with a client the race of line 208 starts.
ProvidersSettle(westOfUtc) ==
    /\ h.pc = "awaitProviders"
    /\ LET r == AfterProviders(h, westOfUtc)
       IN  /\ Apply(r)
           /\ runAllPending' = (r.h.pc = "awaitRace")
           /\ timerArmed' = (r.h.pc = "awaitRace")
    /\ UNCHANGED <<aggregate, mgrVars, callers, availableSeen, px>>

\* runAll settles first and decides the race.
RunAllSettles(settled) ==
    /\ h.pc = "awaitRace"
    /\ runAllPending
    /\ Apply(AfterAggregate(h, settled))
    /\ aggregate' = AggregateClass(settled)
    /\ runAllPending' = FALSE
    /\ UNCHANGED <<timerArmed, mgrVars, callers, availableSeen, px>>

\* The 30 s timer fires first: the race rejects (line 204).
TimerFires ==
    /\ h.pc = "awaitRace"
    /\ timerArmed
    /\ Apply(AfterAggregate(h, Threw))
    /\ aggregate' = "timedOut"
    /\ timerArmed' = FALSE
    /\ UNCHANGED <<runAllPending, mgrVars, callers, availableSeen, px>>

\* The abandoned runAll handing its result to the handler all the same.
RunAllSettlesLate_Delivered ==
    /\ h.pc \notin {"idle", "awaitTmdb", "awaitProviders", "awaitRace"}
    /\ runAllPending
    /\ runAllPending' = FALSE
    /\ \E s \in Settled(RunAllResults) : Apply(AfterAggregate(h, s))
    /\ UNCHANGED <<aggregate, timerArmed, mgrVars, callers, availableSeen, px>>

\* The loser of the race settles later; nothing awaits it any more.
RunAllSettlesLate ==
    /\ h.pc # "awaitRace"
    /\ runAllPending
    /\ runAllPending' = FALSE
    /\ UNCHANGED <<h, responses, called, aggregate, timerArmed, mgrVars, callers, availableSeen, px>>

TimerFiresLate ==
    /\ h.pc # "awaitRace"
    /\ timerArmed
    /\ timerArmed' = FALSE
    /\ UNCHANGED <<h, responses, called, aggregate, runAllPending, mgrVars, callers, availableSeen, px>>

SourceSettles(settled) ==
    /\ h.pc = "awaitSource"
    /\ Apply(AfterSource(h, settled))
    /\ UNCHANGED <<aggregate, runAllPending, timerArmed, mgrVars, callers, availableSeen, px>>

EmbedSettles(settled) ==
    /\ h.pc = "awaitEmbed"
    /\ Apply(AfterEmbed(h, settled))
    /\ UNCHANGED <<aggregate, runAllPending, timerArmed, mgrVars, callers, availableSeen, px>>

(***************************************************************************)
(* POST /proxy (lines 551-591): the request body, the one outbound request *)
(* to the external proxy service and what is sent back.                    *)
(***************************************************************************)
\* req.body: url ("" when the field is missing or empty) and the names of
\* the headers the client asks to pass on (default {}).
ProxyBodies == [url : {"", "http://cdn/master.m3u8", "http://cdn/file.mp4"},
                headers : SUBSET {"Referer", "Range", "Origin"}]

\* The response headers of the proxy service, and key.toLowerCase().
UpstreamHeaders == {"content-type", "Content-Length", "content-range", "set-cookie"}
ToLowerCase(key) == IF key = "Content-Length" THEN "content-length" ELSE key
ForwardedHeaders == {"content-type", "content-length", "content-range"}

\* What axios.get(proxyUrl.toString(), ...) settles to.
ProxyReplies == {[ok |-> FALSE, headers |-> {}]} \cup
    { [ok |-> TRUE, headers |-> hs] : hs \in SUBSET UpstreamHeaders }

NoBody == [url |-> "", headers |-> {}]
IdleProxy == [pc |-> "idle", body |-> NoBody, outbound |-> <<>>, sent |-> <<>>]

\* The outbound request of lines 566-573: config.proxyUrl with the search
\* parameter url set, the caller's headers and a fixed User-Agent.
ProxyOutbound(body) ==
    [base |-> Config.proxyUrl, url |-> body.url,
     headers |-> body.headers \cup {"User-Agent"}, timeout |-> 15000]

\* The handler without the `if (!url)` check of lines 556-561.
OnProxyRequest_NoUrlCheck(body) ==
    [pc |-> "awaitUpstream", body |-> body,
     outbound |-> << ProxyOutbound(body) >>, sent |-> <<>>]

\* Lines 552-573: the request arrives and runs up to its await or its 400.
OnProxyRequest(body) ==
    IF body.url = ""
    THEN [pc |-> "done", body |-> body, outbound |-> <<>>,
          sent |-> << [status |-> 400, success |-> FALSE,
                       error |-> "URL is required", headers |-> {}] >>]
    ELSE [pc |-> "awaitUpstream", body |-> body,
          outbound |-> << ProxyOutbound(body) >>, sent |-> <<>>]

\* Lines 575-590: the outbound request has settled; its content is piped
\* with the three content headers, or the catch answers 500.
AfterUpstream(p, reply) ==
    IF reply.ok
    THEN [p EXCEPT !.pc = "done",
             !.sent = << [status |-> 200, success |-> TRUE, error |-> "",
                          headers |-> {k \in reply.headers :
                                          ToLowerCase(k) \in ForwardedHeaders}] >>]
    ELSE [p EXCEPT !.pc = "done",
             !.sent = << [status |-> 500, success |-> FALSE,
                          error |-> "Proxy request failed", headers |-> {}] >>]

ProxyRequest(body) ==
    /\ px.pc = "idle"
    /\ px' = OnProxyRequest(body)
    /\ UNCHANGED <<mgrVars, callers, availableSeen, h, responses, called,
                   aggregate, runAllPending, timerArmed>>

UpstreamSettles(reply) ==
    /\ px.pc = "awaitUpstream"
    /\ px' = AfterUpstream(px, reply)
    /\ UNCHANGED <<mgrVars, callers, availableSeen, h, responses, called,
                   aggregate, runAllPending, timerArmed>>

ProxyReturns ==
    /\ px.pc = "done"
    /\ px' = IdleProxy
    /\ UNCHANGED <<mgrVars, callers, availableSeen, h, responses, called,
                   aggregate, runAllPending, timerArmed>>

(***************************************************************************)
(* The specifications.  Spec is the GET /get handler serving one request   *)
(* after another on top of the manager; SpecMgr is the manager under       *)
(* concurrent callers and resets; SpecProxy is the POST /proxy handler.    *)
(***************************************************************************)
Init ==
    /\ providersInstance = NullInstance
    /\ loadPromise = NoPromise
    /\ attempts = <<>>
    /\ resets = 0
    /\ callers = [c \in Callers |-> IdleCaller]
    /\ availableSeen = FALSE
    /\ h = IdleHandler
    /\ responses = <<>>
    /\ called = {}
    /\ aggregate = "none"
    /\ runAllPending = FALSE
    /\ timerArmed = FALSE
    /\ px = IdleProxy

Next ==
    \/ \E q \in Queries : Request(q)
    \/ \E reply \in TmdbReplies(h.query.type), o \in InitOutcomes :
          TmdbSettles(reply, o)
    \/ \E west \in BOOLEAN : ProvidersSettle(west)
    \/ \E s \in Settled(RunAllResults) : RunAllSettles(s)
    \/ TimerFires
    \/ RunAllSettlesLate
    \/ TimerFiresLate
    \/ \E s \in Settled(SourceResults) : SourceSettles(s)
    \/ \E s \in Settled(EmbedResults) : EmbedSettles(s)
    \/ HandlerReturns

Spec == Init /\ [][Next]_vars

MgrNext ==
    \/ \E c \in Callers, p \in ProxyUrls, o \in InitOutcomes : CallerCalls(c, p, o)
    \/ \E c \in Callers : CallerResumes(c)
    \/ \E c \in Callers : CallerReturns(c)
    \/ ResetProviderInstance
    \/ CheckAvailable

SpecMgr == Init /\ [][MgrNext]_vars

ProxyNext ==
    \/ \E body \in ProxyBodies : ProxyRequest(body)
    \/ \E reply \in ProxyReplies : UpstreamSettles(reply)
    \/ ProxyReturns

SpecProxy == Init /\ [][ProxyNext]_vars

(***************************************************************************)
(* The provider client lifecycle manager (checked under SpecMgr).          *)
(***************************************************************************)
AttemptsInEpoch(e) == {i \in 1..Len(attempts) : attempts[i].epoch = e}

\* C1: for every caller that has called getProviderInstance, the library
\* construction was attempted exactly once between the resets that enclose
\* its call, however many calls were issued and however they interleave,
\* and the value the caller is given is the result of that one attempt.
C1_SingleFlight ==
    \A c \in Callers :
        callers[c].pc # "idle" =>
            /\ Cardinality(AttemptsInEpoch(callers[c].epoch)) = 1
            /\ \A i \in AttemptsInEpoch(callers[c].epoch) :
                   attempts[i].value = callers[c].value

\* Two calls are in flight at once, issued with no reset between them and
\* while no client exists (the one attempt failed).
C1_Witness ==
    \E c1, c2 \in Callers :
        /\ c1 # c2
        /\ callers[c1].pc = "awaiting" /\ callers[c2].pc = "awaiting"
        /\ callers[c1].epoch = resets /\ callers[c2].epoch = resets
        /\ ~Truthy(providersInstance)
        /\ Cardinality(AttemptsInEpoch(resets)) = 1

\* C4: a getProviderInstance call made after an initialization attempt has
\* failed and its promise has settled to null, with no reset in between,
\* begins a new initialization attempt.
C4_RetryAfterFailure ==
    [][\A c \in Callers :
          ( /\ callers[c].pc = "idle" /\ callers'[c].pc = "awaiting"
            /\ ~Truthy(providersInstance)
            /\ loadPromise # NoPromise /\ loadPromise.value = NullInstance )
          => Len(attempts') = Len(attempts) + 1]_vars

(***************************************************************************)
(* GET /get (checked under Spec).                                          *)
(***************************************************************************)
Sent == {responses[i] : i \in 1..Len(responses)}
ExtractableQualities(stream) == InlineQualities(stream).qualities

\* C2: when the aggregate runAll phase has given a stream from which no
\* quality entry can be extracted, the cascade goes on to the individual
\* sources: runSourceScraper is invoked for the request.
C2_EmptyAggregateContinues ==
    aggregate = "empty" => "runSourceScraper" \in called

\* C3: a request that passed validation and whose handler has run to its
\* end (every external call it awaited has settled) has sent exactly one
\* response.
C3_OneResponse ==
    (h.pc = "done" /\ "tmdb" \in called) => Len(responses) = 1

\* C5: while the handler awaits source s, which it does only after the
\* aggregate phase failed and every earlier source gave nothing usable,
\* any runSourceScraper result that carries a direct stream with at least
\* one extractable quality makes it respond Success with sourceProvider = s.
C5_FirstUsableSourceWins ==
    (h.pc = "awaitSource" /\ aggregate \in {"failed", "timedOut"}) =>
        \A s \in Settled(SourceResults) :
            ( /\ ~s.threw /\ ~s.value.isNull /\ HasStream(s.value)
              /\ Len(ExtractableQualities(s.value.stream)) >= 1 )
            => LET r == AfterSource(h, s)
               IN  /\ Len(r.send) = 1
                   /\ r.send[1].success
                   /\ r.send[1].data.sourceProvider = Sources[h.srcIdx]

\* C6: the handler waits on the race only while the timer has not fired,
\* and the step in which the timer fires with runAll unresolved sends
\* nothing, leaves runAll unresolved and invokes the first source scraper.
C6_TimerEndsAggregate ==
    [][ /\ (h'.pc = "awaitRace" => timerArmed')
        /\ (h.pc = "awaitRace" /\ timerArmed /\ ~timerArmed')
              => /\ h'.pc = "awaitSource" /\ h'.srcIdx = 1
                 /\ Sources[h'.srcIdx] = "8stream"
                 /\ "runSourceScraper" \in called'
                 /\ runAllPending' = runAllPending
                 /\ responses' = responses ]_vars

\* The timer has fired, runAll is still unresolved and the handler awaits
\* the first source.
C6_Witness ==
    /\ h.pc = "awaitSource" /\ h.srcIdx = 1
    /\ runAllPending /\ ~timerArmed

\* C7: every Success response carries at least one quality entry, and
\* every quality entry has a non-empty url.
C7_QualitiesNeverEmpty ==
    \A r \in Sent :
        r.success =>
            /\ Len(r.data.qualities) >= 1
            /\ \A i \in 1..Len(r.data.qualities) : r.data.qualities[i].url # ""

\* A Success response from the embed phase with two quality entries.
C7_Witness ==
    \E r \in Sent :
        /\ r.success
        /\ h.embed # NoEmbed
        /\ r.data.sourceProvider = "ee3 → vidcloud"
        /\ Len(r.data.qualities) = 2

\* C8 as stated: every non-success response carries videasy.net,
\* vidlink.pro and vidsrc.pro, and carries superembed exactly when no
\* provider client was obtained.
HasFallback(r, domain) == \E i \in 1..Len(r.fallbacks) : r.fallbacks[i] = domain
C8_SuperembedOnlyWithoutClient ==
    \A r \in Sent :
        ~r.success =>
            /\ \A i \in 1..Len(Fallbacks3) : HasFallback(r, Fallbacks3[i])
            /\ HasFallback(r, "superembed") <=> ~Truthy(h.providers)

\* C8 as amended: a non-success response is either a validation failure
\* (400) without any fallback list, or a 200 response whose list is
\* videasy.net, vidlink.pro, vidsrc.pro, superembed, whether or not a
\* provider client was obtained.
C8_FallbackList ==
    \A r \in Sent :
        ~r.success =>
            \/ r.status = 400 /\ r.fallbacks = <<>> /\ called = {}
            \/ r.status = 200 /\ r.fallbacks = Fallbacks4

\* The cascade ran with a client through the last source and was
\* exhausted; the response sent lists superembed.
C8_Witness ==
    /\ h.pc = "done" /\ Truthy(h.providers) /\ h.srcIdx = Len(Sources)
    /\ responses = <<FallbackResponse>>
    /\ HasFallback(responses[1], "superembed")

\* C9: a request with type=tv that lacks season or episode gets a 400
\* validation failure and nothing else: no TMDB fetch, no
\* getProviderInstance call, no scraper invocation.
C9_TvNeedsEpisode ==
    ( /\ h.pc # "idle" /\ h.query.type = "tv"
      /\ (h.query.season = "" \/ h.query.episode = "") )
    => /\ h.pc = "done"
       /\ Len(responses) = 1
       /\ responses[1].status = 400 /\ ~responses[1].success
       /\ called = {}

\* A tv request with a tmdbId and a season but no episode was answered.
C9_Witness ==
    /\ h.pc = "done"
    /\ h.query = [tmdbId |-> "603", type |-> "tv", season |-> "1", episode |-> ""]
    /\ Len(responses) = 1

\* C10: a request with a tmdbId and type=movie is never rejected, with or
\* without season and episode: it goes on to the TMDB fetch, no 400 is
\* sent, and the media object built for it carries no season or episode.
C10_MovieNeverRejected ==
    /\ ( h.pc # "idle" /\ h.query.type = "movie" /\ h.query.tmdbId # "" )
       => /\ "tmdb" \in called
          /\ \A r \in Sent : r.status # 400
          /\ h.pc = "awaitProviders" /\ Truthy(h.pending)
                => \A west \in BOOLEAN :
                      LET m == AfterProviders(h, west).h.media
                      IN  m.type = "movie" /\ ~m.hasEpisode
                          /\ m.season = 0 /\ m.episode = 0
    /\ h.media.type = "movie"
       => ~h.media.hasEpisode /\ h.media.season = 0 /\ h.media.episode = 0

\* A movie request that names a season and an episode has passed
\* validation and is about to build its media object.
C10_Witness ==
    /\ h.pc = "awaitProviders" /\ Truthy(h.pending)
    /\ h.query = [tmdbId |-> "603", type |-> "movie", season |-> "1", episode |-> "4"]

\* C11: for a request that passed validation, whatever external call
\* fails, every response sent has status 200 and is a Success or the
\* fallback answer; and after a failed TMDB fetch (empty metadata) the
\* handler still goes on: with a client it starts the aggregate race, and
\* without one it answers 200.
C11_FailuresStay200 ==
    /\ "tmdb" \in called =>
          \A r \in Sent : r.status = 200 /\ (r.success \/ r = FallbackResponse)
    /\ (h.pc = "awaitProviders" /\ h.tmdbData = EmptyTmdb) =>
          \A west \in BOOLEAN :
              LET r == AfterProviders(h, west)
              IN  /\ \A i \in 1..Len(r.send) : r.send[i].status = 200
                  /\ Truthy(h.pending) => r.h.pc = "awaitRace" /\ "runAll" \in r.call

\* The TMDB fetch failed (the media has no title), the cascade ran with a
\* client through the embed scraper and was exhausted, and the answer is 200.
C11_Witness ==
    /\ h.pc = "done" /\ Truthy(h.providers)
    /\ h.media # NoMedia /\ h.media.title = "" /\ h.media.releaseYear = 0
    /\ "runEmbedScraper" \in called
    /\ Len(responses) = 1 /\ responses[1].status = 200 /\ ~responses[1].success

(***************************************************************************)
(* POST /proxy (checked under SpecProxy).                                  *)
(***************************************************************************)
\* C12: a POST /proxy request whose url field is missing is answered 400
\* and makes no outbound request to the proxy service.
C12_ProxyNeedsUrl ==
    (px.pc # "idle" /\ px.body.url = "") =>
        /\ px.pc = "done"
        /\ px.outbound = <<>>
        /\ Len(px.sent) = 1
        /\ px.sent[1].status = 400 /\ ~px.sent[1].success

\* A request without url but with headers to pass on was answered.
C12_Witness ==
    /\ px.pc = "done" /\ px.body.url = "" /\ px.body.headers = {"Referer", "Range"}
    /\ Len(px.sent) = 1

(***************************************************************************)
(* The manager again (checked under SpecMgr).                              *)
(***************************************************************************)
\* C13: after resetProviderInstance() and until the next
\* getProviderInstance call, the cached client and the cached promise are
\* both cleared, isProviderSourceAvailable() is false, and whatever call
\* comes next starts a fresh initialization attempt.
C13_ResetClears ==
    (resets > 0 /\ AttemptsInEpoch(resets) = {}) =>
        /\ ~IsProviderSourceAvailable
        /\ providersInstance = NullInstance
        /\ loadPromise = NoPromise
        /\ \A p \in ProxyUrls, o \in InitOutcomes :
               LET r == GetProviderInstance(p, o)
               IN  /\ Len(r.log) = Len(attempts) + 1
                   /\ r.log[Len(r.log)].epoch = resets
                   /\ r.promise.id = Len(attempts) + 1

\* An initialization succeeded, a reset followed, and the next call made a
\* second attempt.
C13_Witness ==
    /\ resets = 1 /\ Len(attempts) = 2
    /\ attempts[1].epoch = 0 /\ Truthy(attempts[1].value)
    /\ attempts[2].epoch = 1

\* C14: while an initialized client exists (no reset since it was built),
\* every getProviderInstance call, whatever proxyUrl it passes, returns
\* that client, constructs nothing and leaves the client as it is; every
\* caller of the current epoch holds that same client.
C14_ClientIsReused ==
    Truthy(providersInstance) =>
        /\ \A p \in ProxyUrls, o \in InitOutcomes :
               LET r == GetProviderInstance(p, o)
               IN  /\ r.value = providersInstance
                   /\ r.inst = providersInstance
                   /\ r.log = attempts
        /\ \A c \in Callers :
               (callers[c].pc # "idle" /\ callers[c].epoch = resets)
                   => callers[c].value = providersInstance

\* A caller that passed another proxy URL than the client was built with
\* has been given the existing client.
C14_Witness ==
    \E c \in Callers :
        /\ callers[c].pc = "awaiting" /\ callers[c].epoch = resets
        /\ Truthy(callers[c].value)
        /\ callers[c].value = providersInstance
        /\ callers[c].proxyUrl # callers[c].value.proxyUrl

(***************************************************************************)
(* GET /get again (checked under Spec).                                    *)
(***************************************************************************)
\* C20: when getProviderInstance gave no client, the handler ends at once:
\* no runAll, runSourceScraper or runEmbedScraper was invoked and the one
\* response is 200, success:false, with the fallback list that includes
\* superembed.
C20_NoClientShortCircuits ==
    ( /\ h.pc \notin {"idle", "awaitTmdb", "awaitProviders"}
      /\ "getProviderInstance" \in called /\ ~Truthy(h.pending) )
    => /\ h.pc = "done"
       /\ called = {"tmdb", "getProviderInstance"}
       /\ Len(responses) = 1
       /\ responses[1].status = 200 /\ ~responses[1].success
       /\ responses[1].fallbacks = Fallbacks4
       /\ HasFallback(responses[1], "superembed")

\* The TMDB fetch succeeded, no client was obtained, and the request was
\* answered.
C20_Witness ==
    /\ h.pc = "done" /\ h.tmdbData # EmptyTmdb /\ ~Truthy(h.pending)
    /\ "getProviderInstance" \in called
    /\ Len(responses) = 1

(***************************************************************************)
(* GET /get: what the handler makes of a raw stream.  While the handler    *)
(* awaits a scraper, P is asked of every raw stream the scraper can hand   *)
(* over, together with the outcome of the step that then runs.             *)
(***************************************************************************)
IsSuccess(r) == Len(r.send) = 1 /\ r.send[1].success
CarriesStream(s) == ~s.threw /\ ~s.value.isNull /\ HasStream(s.value)
EveryNormalization(P(_, _)) ==
    /\ h.pc = "awaitRace" =>
          \A s \in Settled(RunAllResults) :
              CarriesStream(s) => P(s.value.stream, AfterAggregate(h, s))
    /\ h.pc = "awaitSource" =>
          \A s \in Settled(SourceResults) :
              CarriesStream(s) => P(s.value.stream, AfterSource(h, s))
    /\ h.pc = "awaitEmbed" =>
          \A s \in Settled(EmbedResults) :
              CarriesStream(s) => P(s.value.stream, AfterEmbed(h, s))

CaptionsFaithful(stream, r) ==
    IsSuccess(r) =>
        LET caps == r.send[1].data.captions
        IN  /\ Len(caps) = Len(stream.captions)
            /\ \A i \in 1..Len(caps) :
                   /\ caps[i].url = stream.captions[i].url
                   /\ caps[i].language =
                         IF stream.captions[i].language # ""
                         THEN stream.captions[i].language
                         ELSE "Subtitle " \o ToString(i)
                   /\ caps[i].default = (i = 1)

\* C15: in every Success response the captions list has the length and the
\* order of the raw stream's caption list (entry i is made from raw entry
\* i), the first caption is the default one and no other is.
C15_CaptionsKeepOrder ==
    /\ EveryNormalization(CaptionsFaithful)
    /\ \A r \in Sent :
          r.success => \A i \in 1..Len(r.data.captions) :
                           r.data.captions[i].default = (i = 1)

\* A Success response with two captions, the second one unnamed in the raw
\* stream.
C15_Witness ==
    \E r \in Sent :
        /\ r.success /\ Len(r.data.captions) = 2
        /\ r.data.captions[1].default /\ ~r.data.captions[2].default
        /\ r.data.captions[2].language = "Subtitle 2"

HlsGivesAuto(stream, r) ==
    (stream.type = "hls" /\ stream.playlist # "") =>
        LET auto == << [quality |-> "auto", url |-> stream.playlist] >>
        IN  /\ InlineQualities(stream) = [type |-> "hls", qualities |-> auto]
            /\ IsSuccess(r) => /\ r.send[1].data.type = "hls"
                               /\ r.send[1].data.qualities = auto

\* C16: a raw stream of kind hls with a playlist URL is normalized to
\* exactly one quality entry, of quality auto and with the playlist URL,
\* and to the response type hls, whatever else the raw stream carries.
C16_HlsIsOneAutoEntry ==
    EveryNormalization(HlsGivesAuto)

\* A Success response of type hls with its one auto entry, sent by the
\* aggregate phase.
C16_Witness ==
    \E r \in Sent :
        /\ r.success /\ r.data.type = "hls" /\ aggregate = "usable"
        /\ r.data.qualities =
              << [quality |-> "auto", url |-> "http://cdn/master.m3u8"] >>

UrlLabels(stream) ==
    IF stream.qualities.present
    THEN {l \in DOMAIN stream.qualities.map :
             ~stream.qualities.map[l].isNull /\ stream.qualities.map[l].url # ""}
    ELSE {}
FileGivesEveryLabel(stream, r) ==
    stream.type = "file" =>
        LET n == InlineQualities(stream)
            q == n.qualities
        IN  /\ n.type = "mp4"
            /\ Len(q) = Cardinality(UrlLabels(stream))
            /\ {q[i] : i \in 1..Len(q)} =
                  { [quality |-> l, url |-> stream.qualities.map[l].url] :
                      l \in UrlLabels(stream) }
            /\ IsSuccess(r) => /\ r.send[1].data.type = "mp4"
                               /\ r.send[1].data.qualities = q

\* C17: a raw stream of kind file is normalized to one quality entry per
\* label of its qualities map that has a URL, with that label and that
\* URL (N entries when all N have one; entries without URL are left out),
\* and to the response type mp4.
C17_FileKeepsLabels ==
    EveryNormalization(FileGivesEveryLabel)

\* A Success response of type mp4 from a direct source stream with both
\* labels.
C17_Witness ==
    \E r \in Sent :
        /\ r.success /\ r.data.type = "mp4" /\ r.data.sourceProvider = "8stream"
        /\ Len(r.data.qualities) = 2
        /\ r.data.qualities[1].quality = "360" /\ r.data.qualities[2].quality = "720"

C19_LateRunAllIsDiscarded ==
    /\ [](Len(responses) <= 1)
    /\ [][ (runAllPending /\ ~timerArmed /\ ~runAllPending' /\ h'.pc # "idle")
              => UNCHANGED <<h, responses, called, aggregate>> ]_vars

\* The timer won, the abandoned runAll has settled since, and the handler
\* awaits a later source.
C19_Witness ==
    /\ aggregate = "timedOut" /\ ~runAllPending
    /\ h.pc = "awaitSource" /\ h.srcIdx = 2

\* C21: for the source the handler awaits, the step that resumes invokes
\* runEmbedScraper only when the source's result carries no direct stream
\* and has at least one embed candidate; a result that carries a direct
\* stream, even one from which no quality is extracted, starts no embed
\* scrape.
C21_EmbedOnlyWithoutStream ==
    h.pc = "awaitSource" =>
        \A s \in Settled(SourceResults) :
            LET r == AfterSource(h, s)
            IN  (r.h.pc = "awaitEmbed" \/ "runEmbedScraper" \in r.call)
                    => /\ ~s.threw /\ ~s.value.isNull
                       /\ ~HasStream(s.value)
                       /\ Len(s.value.embeds) >= 1

\* C22: the one embed scrape of a source targets the first embed of the
\* source's result; when it throws or gives no usable stream the handler
\* moves to the next source (or ends the cascade after the last one)
\* without another embed scrape for this source; when it gives a stream
\* with at least one extractable quality the answer is Success with
\* sourceProvider = "{sourceId} → {embedId}".
C22_FirstEmbedOnly ==
    /\ h.pc = "awaitSource" =>
          \A s \in Settled(SourceResults) :
              LET r == AfterSource(h, s)
              IN  r.h.pc = "awaitEmbed" =>
                      /\ r.h.embed = s.value.embeds[1]
                      /\ r.h.srcIdx = h.srcIdx
    /\ h.pc = "awaitEmbed" =>
          \A s \in Settled(EmbedResults) :
              LET r == AfterEmbed(h, s)
              IN  IF CarriesStream(s)
                     /\ Len(ExtractableQualities(s.value.stream)) >= 1
                  THEN /\ IsSuccess(r)
                       /\ r.send[1].data.sourceProvider =
                             Sources[h.srcIdx] \o " → " \o h.embed.embedId
                  ELSE /\ ~IsSuccess(r)
                       /\ r.h.pc # "awaitEmbed"
                       /\ "runEmbedScraper" \notin r.call
                       /\ r = TrySource(h, h.srcIdx + 1)

UsableStream(stream) == Len(ExtractableQualities(stream)) >= 1
CaptionsThrow(stream) ==
    \E i \in 1..Len(stream.captions) : stream.captions[i].isNull
CaptionFailureIsolated(stream, r) ==
    (UsableStream(stream) /\ CaptionsThrow(stream)) =>
        /\ IsSuccess(r)
        /\ r.send[1].data.captions = <<>>
        /\ r.send[1].data.qualities = ExtractableQualities(stream)

\* C23: in the aggregate, source and embed phases alike, a raw stream with
\* a usable playlist or quality URL whose caption extraction raises an
\* exception (a null caption entry) is still answered with Success, with
\* the captions treated as empty.
C23_CaptionFailureIsolated ==
    EveryNormalization(CaptionFailureIsolated)

CaptionFieldsPreferred(stream, r) ==
    IsSuccess(r) =>
        LET caps == r.send[1].data.captions
        IN  /\ Len(caps) = Len(stream.captions)
            /\ \A i \in 1..Len(caps) :
                   LET raw == stream.captions[i]
                   IN  /\ caps[i].language =
                             IF raw.label # "" THEN raw.label
                             ELSE IF raw.language # "" THEN raw.language
                             ELSE "Subtitle " \o ToString(i)
                       /\ caps[i].url =
                             IF raw.url # "" THEN raw.url ELSE raw.src

\* C24: every caption entry of a Success response has language = label if
\* present, else language if present, else "Subtitle {1-based index}", and
\* url = url if present, else src if present, else the empty string.
C24_CaptionFields ==
    EveryNormalization(CaptionFieldsPreferred)

====
